---- MODULE Spec2Model ----
(***************************************************************************)
(* QBIT animation codec: the encoder tools/gif2qbit.py (GIF -> .qgif       *)
(* container) and the decoder/emitter tools/qgif2header.py (.qgif -> C     *)
(* header table).                                                          *)
(*                                                                         *)
(* Byte strings are sequences of integers 0..255.  A grayscale canvas is   *)
(* the DISPLAY_WIDTH x DISPLAY_HEIGHT image that resize_frame returns; it  *)
(* is represented by the three parameters <<a, b, c>> of a pixel pattern,  *)
(* pixel (x, y) having the value (a*x + b*y + c) mod 256.                   *)
(***************************************************************************)
EXTENDS Integers, Sequences, FiniteSets, TLC

VARIABLES
  \* ---- frame_to_bitmap called on its own
  p_pc, p_canvas, p_threshold, p_invert, p_bitmap,
  \* ---- gif2qbit.py main
  args,        \* parsed command line: input, output, threshold, invert
  files,       \* the collected input files
  pc,          \* position in main
  attempted,   \* the files convert_gif has been called on, in call order
  ok,          \* number of conversions that returned True
  stdout,      \* lines printed so far
  exit_code,   \* process exit status, -1 while running
  fs,          \* the .qgif files on disk: path -> [exists, data]
  \* ---- gif2qbit.py convert_gif (the running or the last call)
  cpc, input_path, output_path, frames, delays, frame_count, result,
  \* ---- qgif2header.py main
  dpc, d_argc, infile, data, d_frame_count, width, height, d_delays, offset,
  frame_size, d_frames, d_stdout, d_exit, outfile,
  \* ---- simulate-devices.py
  s_pc,        \* position of main and of its shutdown handler
  count,       \* args.count
  auto_claim,  \* args.auto_claim
  stop_event,  \* threading.Event: TRUE once set
  threads,     \* number of device threads started (len(threads))
  joined,      \* number of threads shutdown has finished joining
  handlers,    \* the signals shutdown is installed for
  t_pc,        \* device thread -> position in device_thread
  ws,          \* device thread -> its local ws: "None" or the state of the object
  unclosed     \* device thread -> connected websockets it has not yet closed

packVars == <<p_pc, p_canvas, p_threshold, p_invert, p_bitmap>>
mainVars == <<args, files, pc, attempted, ok, stdout, exit_code>>
convVars == <<cpc, input_path, output_path, frames, delays, frame_count, result>>
decVars  == <<dpc, d_argc, infile, data, d_frame_count, width, height, d_delays, offset,
              frame_size, d_frames, d_stdout, d_exit, outfile>>
simVars  == <<s_pc, count, auto_claim, stop_event, threads, joined, handlers,
              t_pc, ws, unclosed>>
vars == <<packVars, mainVars, fs, convVars, decVars, simVars>>

(***************************************************************************)
(* Program constants                                                       *)
(***************************************************************************)
DISPLAY_WIDTH  == 128
DISPLAY_HEIGHT == 64
FRAME_SIZE     == (DISPLAY_WIDTH \div 8) * DISPLAY_HEIGHT
MAX_FRAMES     == 255     \* frame_count > 255, frames[:255]
DEFAULT_DELAY  == 100     \* img.info.get("duration", 100); delay = 100
DEFAULT_THRESHOLD == 128
HEADER_ROW     == 1024    \* the literal [1024] of the emitted declarations
CHUNK          == 16      \* bytes per emitted line

(***************************************************************************)
(* Bounds of the model                                                     *)
(***************************************************************************)
MaxInputs   == 2    \* longest command line of the encoder, in input arguments
NumCanvases == 4    \* canvases tried by the frame_to_bitmap runs
LongExtra   == 1    \* frames of the long source beyond MAX_FRAMES
MaxDecFrames == 2   \* largest frame_count of the containers given to the decoder
MaxDevices  == 2    \* largest args.count of the device simulator

(***************************************************************************)
(* Bytes and integers                                                      *)
(***************************************************************************)
Byte == 0..255

Pow2(k) ==
  CASE k = 0 -> 1 [] k = 1 -> 2 [] k = 2 -> 4  [] k = 3 -> 8
    [] k = 4 -> 16 [] k = 5 -> 32 [] k = 6 -> 64 [] k = 7 -> 128

\* bit k (0 = least significant) of byte b
BitOf(b, k) == (b \div Pow2(k)) % 2

Min(a, b) == IF a < b THEN a ELSE b

\* s[a:b] of Python, 0-based, end clipped to the length
Slice(s, a, b) ==
  LET e == Min(b, Len(s))
  IN  IF a >= e THEN <<>> ELSE [i \in 1..(e - a) |-> s[a + i]]

\* The concatenation of the sequences of ss, in order (by halves, so that the
\* evaluation nests only logarithmically deep)
RECURSIVE FlattenRange(_, _, _)
FlattenRange(ss, lo, hi) ==
  IF lo > hi THEN <<>>
  ELSE IF lo = hi THEN ss[lo]
  ELSE LET mid == (lo + hi) \div 2
       IN  FlattenRange(ss, lo, mid) \o FlattenRange(ss, mid + 1, hi)
Flatten(ss) == FlattenRange(ss, 1, Len(ss))

(***************************************************************************)
(* frame_to_bitmap                                                         *)
(***************************************************************************)
Pixel(canvas, x, y) == (canvas[1] * x + canvas[2] * y + canvas[3]) % 256

\* lines 46-48: the bit decision for one pixel
bit_on(canvas, threshold, invert, x, y) ==
  LET dark == Pixel(canvas, x, y) < threshold
  IN  IF invert THEN ~dark ELSE dark

\* bit_idx with the bits of a byte taken least significant first
bit_idx_LsbFirst(x) == x % 8

\* lines 50-51: where pixel (x, y) lands
byte_idx(x, y) == y * (DISPLAY_WIDTH \div 8) + (x \div 8)
bit_idx(x)     == 7 - (x % 8)

\* line 52: bitmap[byte_idx] |= (1 << bit_idx)
OrBit(byte, k) == IF BitOf(byte, k) = 1 THEN byte ELSE byte + Pow2(k)

\* The value of bitmap[i] after the scan of lines 44-52.  Only the pixels of
\* row i div (W/8) and columns 8*(i mod (W/8)) .. +7 can land in byte i; they
\* are visited with x increasing, as the inner loop does, k counting them.
RECURSIVE ScanByte(_, _, _, _, _, _)
ScanByte(canvas, threshold, invert, i, k, acc) ==
  IF k = 8 THEN acc
  ELSE LET y == i \div (DISPLAY_WIDTH \div 8)
           x == 8 * (i % (DISPLAY_WIDTH \div 8)) + k
           hit == byte_idx(x, y) = i /\ bit_on(canvas, threshold, invert, x, y)
       IN  ScanByte(canvas, threshold, invert, i, k + 1,
                    IF hit THEN OrBit(acc, bit_idx(x)) ELSE acc)

frame_to_bitmap(canvas, threshold, invert) ==
  [n \in 1..FRAME_SIZE |-> ScanByte(canvas, threshold, invert, n - 1, 0, 0)]

(***************************************************************************)
(* Specification SpecPack: frame_to_bitmap on a canvas, a threshold and    *)
(* an invert flag                                                          *)
(***************************************************************************)
Canvases == {<<1 + 2 * k, 4 + k, 37 * k>> : k \in 0..(NumCanvases - 1)}
           \cup {<<0, 0, 0>>, <<0, 0, 255>>}
Thresholds == {0, 1, 100, DEFAULT_THRESHOLD, 255, 256}

(***************************************************************************)
(* Paths and the input files of the encoder                                *)
(***************************************************************************)
P(dir, stem, ext) == [dir |-> dir, stem |-> stem, ext |-> ext]

\* Path.with_suffix
with_suffix(path, ext) == [path EXCEPT !.ext = ext]

NoPath == P("", "", "")          \* args.output is None; no file chosen

\* A source frame: the canvas resize_frame makes of it and the duration the
\* image reports for it, <<>> when img.info has no "duration".
Frame(canvas, duration) == [canvas |-> canvas, duration |-> duration]

LongFrames ==
  [i \in 1..(MAX_FRAMES + LongExtra) |->
     Frame(<<3, 5, i>>,
           IF i > MAX_FRAMES THEN <<70000>>
           ELSE IF i % 3 = 0 THEN <<0>> ELSE <<40 + i>>)]

\* What Image.open and the frame loop find in each file: whether it opens, its
\* frames in order, and bad_at, the 0-based frame whose decoding raises an
\* error other than EOFError (-1: none, the file ends with EOFError).
Image(openable, fr, bad_at) == [openable |-> openable, frames |-> fr, bad_at |-> bad_at]

A_GIF     == P("", "a", "gif")
BIG_GIF   == P("", "big", "gif")
BAD_GIF   == P("", "bad", "gif")
MISSING   == P("", "missing", "gif")
ANIMS_DIR == P("", "anims", "")
B_GIF     == P("anims", "b", "gif")
TRUNC_GIF == P("anims", "trunc", "gif")
NOTES_TXT == P("anims", "notes", "txt")
LONG_GIF  == P("", "long", "gif")
OUT_QGIF  == P("", "out", "qgif")

Sources ==
  (A_GIF     :> Image(TRUE, <<Frame(<<2, 4, 0>>, <<150>>), Frame(<<5, 1, 9>>, <<0>>)>>, -1))
  @@ (BIG_GIF   :> Image(TRUE, <<Frame(<<1, 1, 0>>, <<200>>), Frame(<<1, 2, 3>>, <<70000>>),
                                 Frame(<<7, 3, 1>>, <<30>>)>>, -1))
  @@ (BAD_GIF   :> Image(FALSE, <<>>, -1))
  @@ (B_GIF     :> Image(TRUE, <<Frame(<<3, 7, 11>>, <<>>)>>, -1))
  @@ (TRUNC_GIF :> Image(TRUE, <<Frame(<<9, 2, 5>>, <<65535>>), Frame(<<0, 0, 0>>, <<10>>)>>, 1))
  @@ (NOTES_TXT :> Image(FALSE, <<>>, -1))
  @@ (LONG_GIF  :> Image(TRUE, LongFrames, -1))

is_dir(path)  == path = ANIMS_DIR
is_file(path) == path \in DOMAIN Sources
DirEntries(path) == IF path = ANIMS_DIR THEN {TRUNC_GIF, NOTES_TXT, B_GIF} ELSE {}

\* The order sorted() puts the file names in
NameOrder == <<"a", "b", "bad", "big", "long", "missing", "notes", "out", "trunc">>
Rank(path) == CHOOSE k \in 1..Len(NameOrder) : NameOrder[k] = path.stem

RECURSIVE SortedSeq(_)
SortedSeq(S) ==
  IF S = {} THEN <<>>
  ELSE LET m == CHOOSE x \in S : \A y \in S : Rank(x) <= Rank(y)
       IN  <<m>> \o SortedSeq(S \ {m})

\* sorted(path.glob("*.gif"))
glob_gif(path) == SortedSeq({e \in DirEntries(path) : e.ext = "gif"})

(***************************************************************************)
(* Printed lines                                                           *)
(***************************************************************************)
Line(msg, a, b, c) == [msg |-> msg, a |-> a, b |-> b, c |-> c]

(***************************************************************************)
(* struct.pack / struct.unpack_from                                        *)
(***************************************************************************)
\* PackH with the two bytes in big-endian order
PackH_BigEndian(v) == <<v \div 256, v % 256>>

\* struct.pack("<H", v) raises struct.error unless 0 <= v <= 65535
CanPackH(v) == 0 <= v /\ v <= 65535
PackH(v) == <<v % 256, v \div 256>>
\* struct.pack("<B", v)
PackB(v) == <<v>>

\* struct.unpack_from("<H", buf, off) raises struct.error unless 2 bytes are there
CanUnpackH(buf, off) == off + 2 <= Len(buf)
UnpackH(buf, off) == buf[off + 1] + 256 * buf[off + 2]

(***************************************************************************)
(* The files on disk                                                       *)
(***************************************************************************)
File(exists, bytes) == [exists |-> exists, data |-> bytes]
Absent == File(FALSE, <<>>)

QgifPaths == {with_suffix(f, "qgif") : f \in DOMAIN Sources} \cup {OUT_QGIF}

\* A container left by an earlier run: one 128x64 frame, its last 10 bytes cut
StaleContainer ==
  <<1, 128, 0, 64, 0, 100, 0>> \o [k \in 1..(FRAME_SIZE - 10) |-> (k * 7) % 256]

\* The disk before the encoder runs: out.qgif and anims/b.qgif exist already
InitialFS ==
  [q \in QgifPaths |->
     IF q = OUT_QGIF THEN File(TRUE, StaleContainer)
     ELSE IF q = with_suffix(B_GIF, "qgif") THEN File(TRUE, <<1, 2, 3>>)
     ELSE Absent]

(***************************************************************************)
(* gif2qbit.py convert_gif                                                 *)
(***************************************************************************)
\* delay_of with the test delay < 0: a duration of 0 is kept
delay_of_ZeroKept(frame) ==
  LET delay == IF frame.duration = <<>> THEN DEFAULT_DELAY ELSE frame.duration[1]
  IN  IF delay < 0 THEN DEFAULT_DELAY ELSE delay

\* lines 114-116
delay_of(frame) ==
  LET delay == IF frame.duration = <<>> THEN DEFAULT_DELAY ELSE frame.duration[1]
  IN  IF delay <= 0 THEN DEFAULT_DELAY ELSE delay

\* The frame loop, lines 112-125, runs over frames 0, 1, ... until seek raises
\* EOFError past the last one, or until decoding of frame bad_at raises
\* another error; the delay of a frame is appended before it is decoded.
DecodeRaises(img) == img.bad_at >= 0
DecodedCount(img) == IF DecodeRaises(img) THEN img.bad_at ELSE Len(img.frames)
DecodedDelays(img) ==
  [i \in 1..(IF DecodeRaises(img) THEN img.bad_at + 1 ELSE Len(img.frames)) |->
     delay_of(img.frames[i])]
DecodedFrames(img, threshold, invert) ==
  [i \in 1..DecodedCount(img) |->
     frame_to_bitmap(img.frames[i].canvas, threshold, invert)]

\* frames[:255], delays[:255]
Truncate(s) == IF Len(s) > MAX_FRAMES THEN SubSeq(s, 1, MAX_FRAMES) ELSE s

\* lines 140-142
HeaderBytes(fc) == PackB(fc) \o PackH(DISPLAY_WIDTH) \o PackH(DISPLAY_HEIGHT)

\* lines 143-144: the bytes written before the loop ends or struct.pack raises
DelaysRaise(ds) == \E i \in 1..Len(ds) : ~CanPackH(ds[i])
DelaysWritten(ds) ==
  IF DelaysRaise(ds)
    THEN (CHOOSE i \in 1..Len(ds) : ~CanPackH(ds[i]) /\ \A j \in 1..(i - 1) : CanPackH(ds[j])) - 1
    ELSE Len(ds)
DelayBytes(ds) == Flatten([i \in 1..DelaysWritten(ds) |-> PackH(ds[i])])

\* lines 145-146
FrameBytes(fr) == Flatten(fr)

\* line 99 / 101
OutputPathFor(path, output) ==
  IF output = NoPath THEN with_suffix(path, "qgif") ELSE output

\* convert_gif is entered: lines 97-110
Enter(path) ==
  /\ input_path' = path
  /\ output_path' = OutputPathFor(path, args.output)
  /\ frames' = <<>>
  /\ delays' = <<>>
  /\ frame_count' = 0
  /\ result' = "none"
  /\ cpc' = "open"

\* lines 103-107
OpenImage ==
  /\ cpc = "open"
  /\ IF Sources[input_path].openable
       THEN /\ cpc' = "loop"
            /\ UNCHANGED <<result, stdout>>
       ELSE /\ stdout' = Append(stdout, Line("error_opening", Len(attempted), 0, 0))
            /\ result' = "False"
            /\ cpc' = "returned"
  /\ UNCHANGED <<input_path, output_path, frames, delays, frame_count>>
  /\ UNCHANGED <<args, files, pc, attempted, ok, exit_code, fs, packVars, decVars, simVars>>

\* lines 112-125
FrameLoop ==
  /\ cpc = "loop"
  /\ LET img == Sources[input_path]
     IN  /\ delays' = DecodedDelays(img)
         /\ frames' = DecodedFrames(img, args.threshold, args.invert)
         /\ cpc' = IF DecodeRaises(img) THEN "raised" ELSE "count"
  /\ UNCHANGED <<input_path, output_path, frame_count, result>>
  /\ UNCHANGED <<mainVars, fs, packVars, decVars, simVars>>

\* lines 127-136
CountFrames ==
  /\ cpc = "count"
  /\ IF Len(frames) = 0
       THEN /\ stdout' = Append(stdout, Line("no_frames", Len(attempted), 0, 0))
            /\ result' = "False"
            /\ cpc' = "returned"
            /\ frame_count' = 0
            /\ UNCHANGED <<frames, delays>>
       ELSE IF Len(frames) > MAX_FRAMES
       THEN /\ stdout' = Append(stdout, Line("truncating", Len(frames), 0, 0))
            /\ frames' = Truncate(frames)
            /\ delays' = Truncate(delays)
            /\ frame_count' = MAX_FRAMES
            /\ cpc' = "write"
            /\ UNCHANGED result
       ELSE /\ frame_count' = Len(frames)
            /\ cpc' = "write"
            /\ UNCHANGED <<stdout, frames, delays, result>>
  /\ UNCHANGED <<input_path, output_path>>
  /\ UNCHANGED <<args, files, pc, attempted, ok, exit_code, fs, packVars, decVars, simVars>>

\* line 139: open(output_path, "wb") creates the file or empties it
OpenOutput ==
  /\ cpc = "write"
  /\ fs' = [fs EXCEPT ![output_path] = File(TRUE, <<>>)]
  /\ cpc' = "header"
  /\ UNCHANGED <<input_path, output_path, frames, delays, frame_count, result>>
  /\ UNCHANGED <<mainVars, packVars, decVars, simVars>>

\* lines 140-142
WriteHeader ==
  /\ cpc = "header"
  /\ fs' = [fs EXCEPT ![output_path].data = @ \o HeaderBytes(frame_count)]
  /\ cpc' = "delays"
  /\ UNCHANGED <<input_path, output_path, frames, delays, frame_count, result>>
  /\ UNCHANGED <<mainVars, packVars, decVars, simVars>>

\* lines 143-144; when struct.pack raises, the with statement closes the file,
\* which keeps what was written so far
WriteDelays ==
  /\ cpc = "delays"
  /\ fs' = [fs EXCEPT ![output_path].data = @ \o DelayBytes(delays)]
  /\ cpc' = IF DelaysRaise(delays) THEN "raised" ELSE "frames"
  /\ UNCHANGED <<input_path, output_path, frames, delays, frame_count, result>>
  /\ UNCHANGED <<mainVars, packVars, decVars, simVars>>

\* lines 145-146
WriteFrames ==
  /\ cpc = "frames"
  /\ fs' = [fs EXCEPT ![output_path].data = @ \o FrameBytes(frames)]
  /\ cpc' = "written"
  /\ UNCHANGED <<input_path, output_path, frames, delays, frame_count, result>>
  /\ UNCHANGED <<mainVars, packVars, decVars, simVars>>

\* lines 148-151
ReturnTrue ==
  /\ cpc = "written"
  /\ stdout' = Append(stdout, Line("converted", frame_count, 0, 0))
  /\ result' = "True"
  /\ cpc' = "returned"
  /\ UNCHANGED <<input_path, output_path, frames, delays, frame_count>>
  /\ UNCHANGED <<args, files, pc, attempted, ok, exit_code, fs, packVars, decVars, simVars>>

(***************************************************************************)
(* gif2qbit.py main                                                        *)
(***************************************************************************)
\* lines 172-180: the files collected from the input arguments, in order
RECURSIVE CollectFiles(_)
CollectFiles(inputs) ==
  IF inputs = <<>> THEN <<>>
  ELSE LET path == Head(inputs)
       IN  (IF is_dir(path) THEN glob_gif(path)
            ELSE IF is_file(path) THEN <<path>>
            ELSE <<>>) \o CollectFiles(Tail(inputs))

\* line 180: one warning for each argument that is neither
CollectWarnings(inputs) ==
  LET notFound == {i \in 1..Len(inputs) : ~is_dir(inputs[i]) /\ ~is_file(inputs[i])}
      RECURSIVE Warn(_)
      Warn(i) == IF i > Len(inputs) THEN <<>>
                 ELSE (IF i \in notFound THEN <<Line("not_found", i, 0, 0)>> ELSE <<>>)
                      \o Warn(i + 1)
  IN  Warn(1)

\* OutputWithSeveral with the count off by one
OutputWithSeveral_OffByOne(output, fileList) == output # NoPath /\ Len(fileList) > 2

\* line 186: args.output and len(files) > 1
OutputWithSeveral(output, fileList) == output # NoPath /\ Len(fileList) > 1

\* lines 171-180
Collect ==
  /\ pc = "collect"
  /\ files' = CollectFiles(args.input)
  /\ stdout' = stdout \o CollectWarnings(args.input)
  /\ pc' = "check"
  /\ UNCHANGED <<args, attempted, ok, exit_code, fs, convVars, packVars, decVars, simVars>>

\* lines 182-184
NoFiles ==
  /\ pc = "check"
  /\ files = <<>>
  /\ stdout' = Append(stdout, Line("no_gifs", 0, 0, 0))
  /\ exit_code' = 1
  /\ pc' = "exited"
  /\ UNCHANGED <<args, files, attempted, ok, fs, convVars, packVars, decVars, simVars>>

\* lines 186-188
UsageError ==
  /\ pc = "check"
  /\ files # <<>>
  /\ OutputWithSeveral(args.output, files)
  /\ stdout' = Append(stdout, Line("usage_error", 0, 0, 0))
  /\ exit_code' = 1
  /\ pc' = "exited"
  /\ UNCHANGED <<args, files, attempted, ok, fs, convVars, packVars, decVars, simVars>>

\* line 190
StartBatch ==
  /\ pc = "check"
  /\ files # <<>>
  /\ ~OutputWithSeveral(args.output, files)
  /\ stdout' = Append(stdout, Line("converting", Len(files), 0, 0))
  /\ pc' = "batch"
  /\ UNCHANGED <<args, files, attempted, ok, exit_code, fs, convVars, packVars, decVars, simVars>>

\* lines 191-194: sum() asks the generator for the next file's convert_gif
CallConvert ==
  /\ pc = "batch"
  /\ cpc = "idle"
  /\ Len(attempted) < Len(files)
  /\ attempted' = Append(attempted, files[Len(attempted) + 1])
  /\ Enter(files[Len(attempted) + 1])
  /\ UNCHANGED <<args, files, pc, ok, stdout, exit_code, fs, packVars, decVars, simVars>>

\* lines 191-194: sum() adds the value convert_gif returned
Returned ==
  /\ pc = "batch"
  /\ cpc = "returned"
  /\ ok' = IF result = "True" THEN ok + 1 ELSE ok
  /\ cpc' = "idle"
  /\ UNCHANGED <<input_path, output_path, frames, delays, frame_count, result>>
  /\ UNCHANGED <<args, files, pc, attempted, stdout, exit_code, fs, packVars, decVars, simVars>>

\* line 195: the generator is exhausted, the sum is complete
Summary ==
  /\ pc = "batch"
  /\ cpc = "idle"
  /\ Len(attempted) = Len(files)
  /\ stdout' = Append(stdout, Line("summary", ok, Len(files), 0))
  /\ exit_code' = 0
  /\ pc' = "done"
  /\ UNCHANGED <<args, files, attempted, ok, fs, convVars, packVars, decVars, simVars>>

\* An exception raised in convert_gif is caught nowhere: it leaves sum() and
\* main, and the interpreter exits with status 1 after the traceback.
Uncaught ==
  /\ pc = "batch"
  /\ cpc = "raised"
  /\ exit_code' = 1
  /\ pc' = "crashed"
  /\ UNCHANGED <<args, files, attempted, ok, stdout, fs, convVars, packVars, decVars, simVars>>

EncNext ==
  \/ Collect \/ NoFiles \/ UsageError \/ StartBatch \/ CallConvert
  \/ OpenImage \/ FrameLoop \/ CountFrames \/ OpenOutput \/ WriteHeader
  \/ WriteDelays \/ WriteFrames \/ ReturnTrue \/ Returned \/ Summary \/ Uncaught

(***************************************************************************)
(* qgif2header.py main                                                     *)
(***************************************************************************)
\* The header file: absent, or holding the table of an emitted header
Header(exists, table) == [exists |-> exists, table |-> table]
NoHeader == Header(FALSE, <<>>)

\* lines 26-28: data[0] and the two unpack_from need bytes 0..4
HeaderRaises(buf) == Len(buf) = 0 \/ ~CanUnpackH(buf, 1) \/ ~CanUnpackH(buf, 3)

\* lines 33-38: the delays read before the loop ends or unpack_from raises
DelaysParsed(buf, fc) ==
  Cardinality({i \in 0..(fc - 1) : CanUnpackH(buf, 5 + 2 * i)})
ParseDelayList(buf, fc) ==
  [i \in 1..DelaysParsed(buf, fc) |-> UnpackH(buf, 5 + 2 * (i - 1))]

\* line 41
FrameSizeOf(w, h) == (w \div 8) * h

\* line 44: data[offset : offset + frame_size] of frame i, the frames starting at start
FrameSlice(buf, start, fsz, i) == Slice(buf, start + i * fsz, start + (i + 1) * fsz)

\* FrameTruncated with the test len(frame) > frame_size: a short slice passes
FrameTruncated_OnlyLonger(frame, fsz) == Len(frame) > fsz

\* line 45
FrameTruncated(frame, fsz) == Len(frame) # fsz

\* lines 43-49: the index of the first frame found truncated, fc when none is
FirstTruncated(buf, start, fsz, fc) ==
  LET bad == {i \in 0..(fc - 1) : FrameTruncated(FrameSlice(buf, start, fsz, i), fsz)}
  IN  IF bad = {} THEN fc ELSE CHOOSE i \in bad : \A j \in bad : i <= j

\* TruncatedLine with the frame numbered from 1
TruncatedLine_OneBased(i, frame, fsz) == Line("truncated", i + 1, Len(frame), fsz)

\* line 46
TruncatedLine(i, frame, fsz) == Line("truncated", i, Len(frame), fsz)

\* lines 86-90: the bytes of a frame, CHUNK to a line
Chunks(frame) ==
  [r \in 1..((Len(frame) + CHUNK - 1) \div CHUNK) |->
     Slice(frame, CHUNK * (r - 1), CHUNK * r)]

\* lines 53-104: what the emitted header declares
EmitTable(fc, w, h, dl, fr) ==
  [ typedef_row |-> HEADER_ROW,          \* const uint8_t (* frames)[1024]
    frame_count |-> fc,                  \* #define <P>_FRAME_COUNT
    width       |-> w,                   \* #define <P>_WIDTH
    height      |-> h,                   \* #define <P>_HEIGHT
    delays_dim  |-> fc,                  \* <p>_delays[<P>_FRAME_COUNT]
    delays_init |-> dl,
    frames_dim  |-> <<fc, HEADER_ROW>>,  \* <p>_frames[<P>_FRAME_COUNT][1024]
    frames_init |-> [f \in 1..Len(fr) |-> Chunks(fr[f])] ]

\* len(sys.argv) of the runs: one argument missing, the three expected, one too many
ArgvLens == {3, 4, 5}

\* lines 13-18: the tool is started, once no encoder is running, on some
\* command line; with other than three arguments it prints the usage line and
\* exits 1, else infile is a path that may or may not exist
DecStart ==
  /\ dpc = "idle"
  /\ pc \in {"off", "done", "exited", "crashed"}
  /\ \E n \in ArgvLens :
       /\ d_argc' = n
       /\ IF n # 4
            THEN /\ d_stdout' = Append(d_stdout, Line("usage", 0, 0, 0))
                 /\ d_exit' = 1
                 /\ dpc' = "exited"
                 /\ UNCHANGED infile
            ELSE /\ \E q \in DOMAIN fs : infile' = q
                 /\ dpc' = "read"
                 /\ UNCHANGED <<d_stdout, d_exit>>
  /\ UNCHANGED <<data, d_frame_count, width, height, d_delays, offset, frame_size,
                 d_frames, outfile>>
  /\ UNCHANGED <<mainVars, fs, convVars, packVars, simVars>>

\* lines 22-23: open(infile, "rb") raises FileNotFoundError on a missing file
ReadInput ==
  /\ dpc = "read"
  /\ IF fs[infile].exists
       THEN /\ data' = fs[infile].data
            /\ dpc' = "header"
            /\ UNCHANGED d_exit
       ELSE /\ dpc' = "raised"
            /\ d_exit' = 1
            /\ UNCHANGED data
  /\ UNCHANGED <<d_argc, infile, d_frame_count, width, height, d_delays, offset, frame_size,
                 d_frames, d_stdout, outfile>>
  /\ UNCHANGED <<mainVars, fs, convVars, packVars, simVars>>

\* lines 25-30
ParseHeader ==
  /\ dpc = "header"
  /\ IF HeaderRaises(data)
       THEN \* the assignments made before data[0] or an unpack_from raises
            /\ d_frame_count' = IF Len(data) >= 1 THEN data[1] ELSE d_frame_count
            /\ width' = IF CanUnpackH(data, 1) THEN UnpackH(data, 1) ELSE width
            /\ dpc' = "raised"
            /\ d_exit' = 1
            /\ UNCHANGED <<height, d_stdout>>
       ELSE /\ d_frame_count' = data[1]
            /\ width' = UnpackH(data, 1)
            /\ height' = UnpackH(data, 3)
            /\ d_stdout' = Append(d_stdout, Line("frames", data[1], UnpackH(data, 1),
                                                 UnpackH(data, 3)))
            /\ dpc' = "delays"
            /\ UNCHANGED d_exit
  /\ UNCHANGED <<d_argc, infile, data, d_delays, offset, frame_size, d_frames, outfile>>
  /\ UNCHANGED <<mainVars, fs, convVars, packVars, simVars>>

\* lines 32-38
ParseDelays ==
  /\ dpc = "delays"
  /\ d_delays' = ParseDelayList(data, d_frame_count)
  /\ offset' = 5 + 2 * DelaysParsed(data, d_frame_count)
  /\ IF DelaysParsed(data, d_frame_count) < d_frame_count
       THEN dpc' = "raised" /\ d_exit' = 1
       ELSE dpc' = "frames" /\ UNCHANGED d_exit
  /\ UNCHANGED <<d_argc, infile, data, d_frame_count, width, height, frame_size, d_frames,
                 d_stdout, outfile>>
  /\ UNCHANGED <<mainVars, fs, convVars, packVars, simVars>>

\* lines 40-49
ParseFrames ==
  /\ dpc = "frames"
  /\ LET fsz  == FrameSizeOf(width, height)
         stop == FirstTruncated(data, offset, fsz, d_frame_count)
     IN  /\ frame_size' = fsz
         /\ d_frames' = [i \in 1..stop |-> FrameSlice(data, offset, fsz, i - 1)]
         /\ offset' = offset + stop * fsz
         /\ IF stop < d_frame_count
              THEN /\ d_stdout' = Append(d_stdout,
                        TruncatedLine(stop, FrameSlice(data, offset, fsz, stop), fsz))
                   /\ d_exit' = 1
                   /\ dpc' = "exited"
              ELSE /\ dpc' = "emit"
                   /\ UNCHANGED <<d_stdout, d_exit>>
  /\ UNCHANGED <<d_argc, infile, data, d_frame_count, width, height, d_delays, outfile>>
  /\ UNCHANGED <<mainVars, fs, convVars, packVars, simVars>>

\* lines 51-106
Emit ==
  /\ dpc = "emit"
  /\ outfile' = Header(TRUE, <<EmitTable(d_frame_count, width, height, d_delays, d_frames)>>)
  /\ d_stdout' = Append(d_stdout, Line("generated", d_frame_count, width, height))
  /\ d_exit' = 0
  /\ dpc' = "done"
  /\ UNCHANGED <<d_argc, infile, data, d_frame_count, width, height, d_delays, offset,
                 frame_size, d_frames>>
  /\ UNCHANGED <<mainVars, fs, convVars, packVars, simVars>>

DecNext ==
  \/ DecStart \/ ReadInput \/ ParseHeader \/ ParseDelays \/ ParseFrames \/ Emit

(***************************************************************************)
(* tools/simulate-devices.py: main, its shutdown handler and the device    *)
(* threads.  Time is left out: a call that blocks under a timeout          *)
(* (connect 10 s, recv 5 s, sleep 2 s, join 5 s) is one step whose outcome *)
(* is chosen freely among those the call has.  What the threads print is   *)
(* not part of the state.                                                  *)
(*                                                                         *)
(* The local ws of a thread is "None" or the state of the WebSocket object *)
(* it refers to: "created" by websocket.WebSocket(), "open" from a         *)
(* successful connect, "lost" once a send or recv found the connection     *)
(* gone, and after ws.close() "closed" if it had been connected, "unused"  *)
(* if it never was.  unclosed counts, per thread, the objects that were    *)
(* connected and have not had their close(), referred to by ws or not.     *)
(***************************************************************************)
Devices == 0..(MaxDevices - 1)

\* data values ws.recv() returns: "" is an empty frame, "junk" is not JSON,
\* "nondict" is JSON that is not an object, the others name msg["type"]
Messages == {"", "junk", "nondict", "poke", "claim_request"}

\* process of the simulator running: daemon threads live as long as it does
Alive == s_pc \in {"spawn", "install", "wait", "join"}

Goto(t, where) == t_pc' = [t_pc EXCEPT ![t] = where]

SetWs(t, state) == ws' = [ws EXCEPT ![t] = state]

\* while not stop_event.is_set(), line 97, and its constant-true variant
inner_loop_runs_Always(is_set) == TRUE

inner_loop_runs(is_set) == ~is_set

\* ws.close(): state of the object afterwards
close(state) == IF state \in {"open", "lost", "closed"} THEN "closed" ELSE "unused"

\* ---- main
Signals == {"SIGINT", "SIGTERM"}

\* for i in range(args.count): Thread(..., daemon=True).start(); threads.append(t)
StartThread ==
  /\ s_pc = "spawn"
  /\ threads < count
  /\ Goto(threads, "loop")
  /\ threads' = threads + 1
  /\ UNCHANGED <<s_pc, count, auto_claim, stop_event, joined, handlers, ws, unclosed>>

\* line 161, after the loop of lines 145-151: signal.signal(signal.SIGINT, shutdown)
InstallSigint ==
  /\ s_pc = "spawn"
  /\ threads = count
  /\ handlers' = handlers \cup {"SIGINT"}
  /\ s_pc' = "install"
  /\ UNCHANGED <<count, auto_claim, stop_event, threads, joined, t_pc, ws, unclosed>>

\* line 162: signal.signal(signal.SIGTERM, shutdown); then while True: time.sleep(1)
InstallSigterm ==
  /\ s_pc = "install"
  /\ handlers' = handlers \cup {"SIGTERM"}
  /\ s_pc' = "wait"
  /\ UNCHANGED <<count, auto_claim, stop_event, threads, joined, t_pc, ws, unclosed>>

\* A signal shutdown is not installed for, at any point of main or of a
\* running shutdown: SIGINT raises KeyboardInterrupt in main, SIGTERM kills
\* the process; either way the process ends and the daemon threads stop
\* where they are
Interrupted ==
  /\ Alive
  /\ \E sig \in Signals \ handlers :
       s_pc' = IF sig = "SIGINT" THEN "interrupted" ELSE "killed"
  /\ UNCHANGED <<count, auto_claim, stop_event, threads, joined, handlers, t_pc, ws, unclosed>>

\* A signal shutdown is installed for: shutdown prints, calls
\* stop_event.set() and starts joining at the first thread.  The handlers stay
\* installed, so a signal that comes while shutdown is joining runs shutdown
\* again, nested in the first call: the joins start over, and the exit is
\* raised from the nested call
Shutdown ==
  /\ Alive
  /\ handlers # {}
  /\ stop_event' = TRUE
  /\ joined' = 0
  /\ s_pc' = "join"
  /\ UNCHANGED <<count, auto_claim, threads, handlers, t_pc, ws, unclosed>>

\* t.join(timeout=5) returns because the thread has ended
JoinReturns ==
  /\ s_pc = "join"
  /\ joined < threads
  /\ t_pc[joined] = "returned"
  /\ joined' = joined + 1
  /\ UNCHANGED <<s_pc, count, auto_claim, stop_event, threads, handlers, t_pc, ws, unclosed>>

\* t.join(timeout=5) returns because the 5 s have passed
JoinTimesOut ==
  /\ s_pc = "join"
  /\ joined < threads
  /\ t_pc[joined] # "returned"
  /\ joined' = joined + 1
  /\ UNCHANGED <<s_pc, count, auto_claim, stop_event, threads, handlers, t_pc, ws, unclosed>>

\* print("Done."); sys.exit(0): the process ends, daemon threads stop where they are
Exit ==
  /\ s_pc = "join"
  /\ joined = threads
  /\ s_pc' = "exited"
  /\ UNCHANGED <<count, auto_claim, stop_event, threads, joined, handlers, t_pc, ws, unclosed>>

\* ---- device_thread
\* while not stop_event.is_set(): ws = None   /   print after the loop, return
LoopHead(t) ==
  /\ t_pc[t] = "loop"
  /\ IF stop_event
       THEN /\ Goto(t, "returned")
            /\ UNCHANGED ws
       ELSE /\ SetWs(t, "None")
            /\ Goto(t, "create")
  /\ UNCHANGED unclosed

\* ws = websocket.WebSocket(); ws.settimeout(10); headers
Create(t) ==
  /\ t_pc[t] = "create"
  /\ \/ /\ SetWs(t, "created")
        /\ Goto(t, "connect")
     \/ /\ Goto(t, "except")      \* the constructor raised, ws is still None
        /\ UNCHANGED ws
  /\ UNCHANGED unclosed

\* ws.connect(url, header=headers)
Connect(t) ==
  /\ t_pc[t] = "connect"
  /\ \/ /\ SetWs(t, "open")
        /\ unclosed' = [unclosed EXCEPT ![t] = @ + 1]
        /\ Goto(t, "register")
     \/ /\ Goto(t, "except")      \* refused, timed out, handshake failed
        /\ UNCHANGED <<ws, unclosed>>

\* ws.send(register_msg); print
Register(t) ==
  /\ t_pc[t] = "register"
  /\ \/ /\ Goto(t, "inner")
        /\ UNCHANGED ws
     \/ /\ Goto(t, "except")      \* send timed out, the connection still open
        /\ UNCHANGED ws
     \/ /\ SetWs(t, "lost")       \* send found the connection gone
        /\ Goto(t, "except")
  /\ UNCHANGED unclosed

\* while not stop_event.is_set(): ws.settimeout(5)
InnerHead(t) ==
  /\ t_pc[t] = "inner"
  /\ Goto(t, IF inner_loop_runs(stop_event) THEN "recv" ELSE "finally")
  /\ UNCHANGED <<ws, unclosed>>

\* handle_message(ws, device_id, device_name, data, auto_claim) up to its
\* time.sleep(2): where device_thread goes on for each message
handle_message(m, auto) ==
  CASE m = "junk"    -> "inner"       \* json.loads raised: return
    [] m = "nondict" -> "finally"     \* msg.get raised: except Exception: break
    [] m = "claim_request" /\ auto -> "confirm"
    [] OTHER         -> "inner"       \* printed, or no branch taken

\* data = ws.recv(); if data: handle_message(...);
\* except WebSocketTimeoutException: continue; except Exception: break
Recv(t) ==
  /\ t_pc[t] = "recv"
  /\ \/ \E m \in Messages :
          /\ Goto(t, IF m # "" THEN handle_message(m, auto_claim) ELSE "inner")
          /\ UNCHANGED ws
     \/ /\ Goto(t, "inner")       \* receive timeout
        /\ UNCHANGED ws
     \/ /\ Goto(t, "finally")     \* another exception, the connection still open
        /\ UNCHANGED ws
     \/ /\ SetWs(t, "lost")       \* connection dropped
        /\ Goto(t, "finally")
  /\ UNCHANGED unclosed

\* handle_message after the sleep: ws.send(json.dumps({"type": "claim_confirm"})); print
Confirm(t) ==
  /\ t_pc[t] = "confirm"
  /\ \/ /\ Goto(t, "inner")
        /\ UNCHANGED ws
     \/ /\ Goto(t, "finally")     \* send timed out, the connection still open
        /\ UNCHANGED ws
     \/ /\ SetWs(t, "lost")       \* send found the connection gone
        /\ Goto(t, "finally")
  /\ UNCHANGED unclosed

\* except Exception: if not stop_event.is_set(): time.sleep(2)
Except(t) ==
  /\ t_pc[t] = "except"
  /\ Goto(t, "finally")
  /\ UNCHANGED <<ws, unclosed>>

\* finally: if ws: try: ws.close() except Exception: pass
Finally(t) ==
  /\ t_pc[t] = "finally"
  /\ IF ws[t] # "None"
       THEN /\ SetWs(t, close(ws[t]))
            /\ unclosed' = [unclosed EXCEPT ![t] = IF ws[t] \in {"open", "lost"} THEN @ - 1 ELSE @]
       ELSE UNCHANGED <<ws, unclosed>>
  /\ Goto(t, "loop")

device_thread(t) ==
  /\ Alive
  /\ \/ LoopHead(t) \/ Create(t) \/ Connect(t) \/ Register(t) \/ InnerHead(t)
     \/ Recv(t) \/ Confirm(t) \/ Except(t) \/ Finally(t)
  /\ UNCHANGED <<s_pc, count, auto_claim, stop_event, threads, joined, handlers>>

SimMain ==
  /\ \/ StartThread \/ InstallSigint \/ InstallSigterm \/ Interrupted \/ Shutdown
     \/ JoinReturns \/ JoinTimesOut \/ Exit
  /\ UNCHANGED <<packVars, mainVars, fs, convVars, decVars>>

ThreadStep(t) ==
  /\ device_thread(t)
  /\ UNCHANGED <<packVars, mainVars, fs, convVars, decVars>>

SimThread == \E t \in Devices : ThreadStep(t)

SimNext == SimMain \/ SimThread

SimOff ==
  /\ s_pc = "off"
  /\ count = 0
  /\ auto_claim = FALSE
  /\ stop_event = FALSE
  /\ threads = 0
  /\ joined = 0
  /\ handlers = {}
  /\ t_pc = [t \in Devices |-> "unstarted"]
  /\ ws = [t \in Devices |-> "None"]
  /\ unclosed = [t \in Devices |-> 0]

(***************************************************************************)
(* Initial states                                                          *)
(***************************************************************************)
PackOff ==
  /\ p_pc = "off"
  /\ p_canvas = <<0, 0, 0>>
  /\ p_threshold = 0
  /\ p_invert = FALSE
  /\ p_bitmap = <<>>

ConvIdle ==
  /\ cpc = "idle"
  /\ input_path = NoPath
  /\ output_path = NoPath
  /\ frames = <<>>
  /\ delays = <<>>
  /\ frame_count = 0
  /\ result = "none"

\* argparse: args.input, args.output, args.threshold, args.invert
Args(input, output, threshold, invert) ==
  [input |-> input, output |-> output, threshold |-> threshold, invert |-> invert]

EncOff ==
  /\ args = Args(<<>>, NoPath, DEFAULT_THRESHOLD, FALSE)
  /\ files = <<>>
  /\ pc = "off"
  /\ attempted = <<>>
  /\ ok = 0
  /\ stdout = <<>>
  /\ exit_code = -1
  /\ ConvIdle

DecIdle ==
  /\ dpc = "idle"
  /\ d_argc = 0
  /\ infile = NoPath
  /\ data = <<>>
  /\ d_frame_count = 0
  /\ width = 0
  /\ height = 0
  /\ d_delays = <<>>
  /\ offset = 0
  /\ frame_size = 0
  /\ d_frames = <<>>
  /\ d_stdout = <<>>
  /\ d_exit = -1

\* ---- the encoder's command lines
ShortInputs == {A_GIF, BIG_GIF, BAD_GIF, MISSING, ANIMS_DIR}
InputLists == UNION {[1..n -> ShortInputs] : n \in 1..MaxInputs}
Outputs == {NoPath, OUT_QGIF}
Options == {<<DEFAULT_THRESHOLD, FALSE>>, <<100, TRUE>>}
CommandLines ==
  {Args(i, o, t[1], t[2]) : i \in InputLists, o \in Outputs, t \in Options}
  \cup {Args(<<LONG_GIF>>, NoPath, DEFAULT_THRESHOLD, FALSE)}

\* gif2qbit.py is started on a command line; qgif2header.py may follow it
Init ==
  /\ PackOff
  /\ args \in CommandLines
  /\ files = <<>>
  /\ pc = "collect"
  /\ attempted = <<>>
  /\ ok = 0
  /\ stdout = <<>>
  /\ exit_code = -1
  /\ fs = InitialFS
  /\ ConvIdle
  /\ DecIdle
  /\ outfile = NoHeader
  /\ SimOff

Next == EncNext \/ DecNext

Spec == Init /\ [][Next]_vars

(***************************************************************************)
(* Specification SpecDec: qgif2header.py on any container                  *)
(***************************************************************************)
IN_QGIF == P("", "in", "qgif")

Geometries == {<<8, 1>>, <<16, 2>>, <<12, 3>>, <<4, 5>>, <<DISPLAY_WIDTH, DISPLAY_HEIGHT>>}

\* A well-formed container of fc frames of w x h
TestContainer(fc, w, h) ==
  <<fc, w % 256, w \div 256, h % 256, h \div 256>>
  \o Flatten([i \in 1..fc |-> <<(300 * i) % 256, (300 * i) \div 256>>])
  \o Flatten([f \in 1..fc |-> [k \in 1..((w \div 8) * h) |-> (7 * k + 13 * f) % 256]])

\* The lengths a container of n bytes is cut (or, by one byte, extended) to
CutLens(n, fc, fsz) ==
  {n + 1, n, n - 1, n - 2, n - 10, n - fsz, n - fsz - 1, n - fsz - 10,
   5 + 2 * fc, 4 + 2 * fc, 6, 5, 4, 3, 1, 0} \cap 0..(n + 1)

DecInputs ==
  UNION {
    LET c == TestContainer(fc, g[1], g[2])
    IN  {Slice(c \o <<0>>, 0, n) : n \in CutLens(Len(c), fc, (g[1] \div 8) * g[2])}
    : fc \in 0..MaxDecFrames, g \in Geometries}

\* A header emitted by an earlier run
OldHeader == Header(TRUE, <<EmitTable(0, 0, 0, <<>>, <<>>)>>)

DecInit ==
  /\ PackOff
  /\ EncOff
  /\ \E c \in DecInputs : fs = (IN_QGIF :> File(TRUE, c))
  /\ DecIdle
  /\ outfile \in {NoHeader, OldHeader}
  /\ SimOff

SpecDec == DecInit /\ [][DecNext]_vars

(***************************************************************************)
(* Specification SpecPack, continued                                       *)
(***************************************************************************)
PackInit ==
  /\ p_pc = "call"
  /\ p_canvas \in Canvases
  /\ p_threshold \in Thresholds
  /\ p_invert \in BOOLEAN
  /\ p_bitmap = <<>>
  /\ EncOff
  /\ fs = InitialFS
  /\ DecIdle
  /\ outfile = NoHeader
  /\ SimOff

\* bitmap = frame_to_bitmap(gray, threshold, invert)
Pack ==
  /\ p_pc = "call"
  /\ p_bitmap' = frame_to_bitmap(p_canvas, p_threshold, p_invert)
  /\ p_pc' = "returned"
  /\ UNCHANGED <<p_canvas, p_threshold, p_invert>>
  /\ UNCHANGED <<mainVars, fs, convVars, decVars, simVars>>

PackNext == Pack

SpecPack == PackInit /\ [][PackNext]_vars

(***************************************************************************)
(* Specification SpecSim: simulate-devices.py                              *)
(* A device thread that can run does run: the process schedules it, and    *)
(* every call it blocks in returns (connect, send and recv under the       *)
(* socket timeout, sleep after 2 s).  Nothing is assumed of main: signals  *)
(* may never come, and a join may return either way.                       *)
(***************************************************************************)
SimInit ==
  /\ PackOff
  /\ EncOff
  /\ fs = (OUT_QGIF :> Absent)     \* the simulator reads and writes no file
  /\ DecIdle
  /\ outfile = NoHeader
  /\ s_pc = "spawn"
  /\ count \in 1..MaxDevices
  /\ auto_claim \in BOOLEAN
  /\ stop_event = FALSE
  /\ threads = 0
  /\ joined = 0
  /\ handlers = {}
  /\ t_pc = [t \in Devices |-> "unstarted"]
  /\ ws = [t \in Devices |-> "None"]
  /\ unclosed = [t \in Devices |-> 0]

SimFair == \A t \in Devices : WF_vars(ThreadStep(t))

SpecSim == SimInit /\ [][SimNext]_vars /\ SimFair

(***************************************************************************)
(* Properties                                                              *)
(***************************************************************************)
\* Little-endian 16-bit value at 0-based offset off, read directly
LE16(buf, off) == buf[off + 1] + 256 * buf[off + 2]

Terminated == pc \in {"done", "exited", "crashed"}

\* The running or last convert_gif call has gone through its write phase
WritePhaseOver ==
  /\ frame_count > 0
  /\ cpc \in {"frames", "written", "returned", "raised", "idle"}

\* The bytes of the file at the output path of the running or last call
OutputBytes == fs[output_path].data

\* ------------------------------------------------------------------ C1
\* C1: whenever the decoder is run on a container that the encoder's last
\* conversion wrote in full (frame_count in 1..255, every delay in 1..65535),
\* it does not fail, and once it has parsed the container its frame_count,
\* width, height, delays and frames equal the frame_count, DISPLAY_WIDTH,
\* DISPLAY_HEIGHT, delays and frames the encoder wrote, in the same order.
C1_Case ==
  /\ Terminated
  /\ dpc # "idle"
  /\ infile = output_path
  /\ result = "True"
  /\ frame_count \in 1..MAX_FRAMES
  /\ Len(frames) = frame_count
  /\ \A i \in 1..Len(delays) : delays[i] \in 1..65535

C1_RoundTrip ==
  C1_Case =>
    /\ dpc \notin {"raised", "exited"}
    /\ dpc \in {"emit", "done"} =>
         /\ d_frame_count = frame_count
         /\ width = DISPLAY_WIDTH
         /\ height = DISPLAY_HEIGHT
         /\ d_delays = delays
         /\ d_frames = frames

\* The two frames of a.gif have been written, parsed back and emitted
C1_Witness ==
  /\ C1_Case
  /\ dpc = "done"
  /\ input_path = A_GIF
  /\ frame_count = 2
  /\ d_delays = <<150, 100>>
  /\ Len(d_frames) = 2

\* ------------------------------------------------------------------ C2
\* C2: frame_to_bitmap returns (W/8)*H bytes; for every pixel (x, y), bit
\* 7-(x mod 8) of byte y*(W/8)+(x/8) is 1 exactly when (pixel < T) differs
\* from invert; and the call with invert flipped returns the complement of
\* every bit.
C2_BitPacking ==
  p_pc = "returned" =>
    /\ Len(p_bitmap) = (DISPLAY_WIDTH \div 8) * DISPLAY_HEIGHT
    /\ \A n \in 1..Len(p_bitmap) : p_bitmap[n] \in Byte
    /\ \A x \in 0..(DISPLAY_WIDTH - 1), y \in 0..(DISPLAY_HEIGHT - 1) :
         (BitOf(p_bitmap[y * (DISPLAY_WIDTH \div 8) + (x \div 8) + 1], 7 - (x % 8)) = 1)
           <=> ((Pixel(p_canvas, x, y) < p_threshold) # p_invert)
    /\ LET flipped == frame_to_bitmap(p_canvas, p_threshold, ~p_invert)
       IN  /\ Len(flipped) = Len(p_bitmap)
           /\ \A n \in 1..Len(p_bitmap) : \A k \in 0..7 :
                BitOf(flipped[n], k) # BitOf(p_bitmap[n], k)

\* An inverted call on a canvas with dark and light pixels in one byte
C2_Witness ==
  /\ p_pc = "returned"
  /\ p_invert
  /\ p_threshold = 100
  /\ \E n \in 1..Len(p_bitmap) : p_bitmap[n] \notin {0, 255}
  /\ \E x \in 0..7 : Pixel(p_canvas, x, 0) < 100 /\ Pixel(p_canvas, x + 8, 0) >= 100

\* ------------------------------------------------------------------ C3
\* C3 (as claimed): a conversion that fails, at whatever step, leaves the
\* file at its output path as it was before the conversion (here: before the
\* run, the path not having been written by an earlier file of the batch).
ConversionFailed == cpc = "raised" \/ (cpc \in {"returned", "idle"} /\ result = "False")

FirstUseOfOutput ==
  \A i \in 1..(Len(attempted) - 1) :
    OutputPathFor(attempted[i], args.output) # output_path

C3_FailureLeavesOutputUntouched ==
  (ConversionFailed /\ FirstUseOfOutput) => fs[output_path] = InitialFS[output_path]

\* ------------------------------------------------------------------ C4
\* C4 (as claimed): when a batch has ended, however it ended, every collected
\* file has been attempted once, in collected order, and the last line
\* printed is the summary with the number of successes out of the number of
\* files.
BatchEnded == pc \in {"done", "crashed"}

C4_BatchAttemptsAll ==
  BatchEnded =>
    /\ attempted = files
    /\ stdout # <<>>
    /\ stdout[Len(stdout)] = Line("summary", ok, Len(files), 0)

\* ------------------------------------------------------------------ C5
\* C5: every delay the encoder has stored in the container is 100 when the
\* source duration of its frame is absent or <= 0 and the source duration
\* otherwise, and is a 16-bit unsigned value of at least 1 in two bytes; a
\* container written in full holds the delay of each of its frames.
DelaysStored ==
  IF Len(OutputBytes) < 5 THEN 0
  ELSE Min(frame_count, (Len(OutputBytes) - 5) \div 2)

C5_StoredDelays ==
  WritePhaseOver =>
    /\ result = "True" => DelaysStored = frame_count
    /\ \A i \in 1..DelaysStored :
         LET duration == Sources[input_path].frames[i].duration
             stored == LE16(OutputBytes, 5 + 2 * (i - 1))
         IN  /\ OutputBytes[5 + 2 * i - 1] \in Byte
             /\ OutputBytes[5 + 2 * i] \in Byte
             /\ stored >= 1
             /\ stored <= 65535
             /\ stored = IF duration = <<>> THEN 100
                         ELSE IF duration[1] <= 0 THEN 100
                         ELSE duration[1]

\* a.gif, durations 150 and 0, has been written: 150 and 100 are stored
C5_Witness ==
  /\ WritePhaseOver
  /\ result = "True"
  /\ input_path = A_GIF
  /\ DelaysStored = 2
  /\ LE16(OutputBytes, 5) = 150
  /\ LE16(OutputBytes, 7) = 100

\* ------------------------------------------------------------------ C6
\* C6 (as claimed): the conversion of a source that yields N >= 1 frames
\* ends in success with a container of frame_count = min(N, 255) that holds
\* the delays and the packed frames of the first frame_count source frames.
ConversionEnded == cpc \in {"returned", "raised"}

ExpectedContainer(img, threshold, invert) ==
  LET n == Min(Len(img.frames), 255)
      d(i) == IF img.frames[i].duration = <<>> THEN 100
              ELSE IF img.frames[i].duration[1] <= 0 THEN 100
              ELSE img.frames[i].duration[1]
  IN  <<n, 128, 0, 64, 0>>
      \o Flatten([i \in 1..n |-> <<d(i) % 256, d(i) \div 256>>])
      \o Flatten([i \in 1..n |-> frame_to_bitmap(img.frames[i].canvas, threshold, invert)])

YieldsFrames(img) == img.openable /\ img.bad_at = -1 /\ Len(img.frames) >= 1

C6_ContainerHoldsFirstFrames ==
  (ConversionEnded /\ YieldsFrames(Sources[input_path])) =>
    /\ result = "True"
    /\ fs[output_path].exists
    /\ OutputBytes = ExpectedContainer(Sources[input_path], args.threshold, args.invert)

\* ------------------------------------------------------------------ C10
\* C10 (as claimed): with -o and more than one input argument, the command
\* ends with a non-zero exit before any conversion: no file is attempted and
\* the disk is as before.
C10_OutputWithSeveralInputs ==
  (args.output # NoPath /\ Len(args.input) > 1) =>
    /\ attempted = <<>>
    /\ fs = InitialFS
    /\ pc \in {"collect", "check", "exited"}
    /\ pc = "exited" => exit_code # 0

\* C10 (amended): with -o and more than one collected source file, the
\* command prints the usage error and exits 1 before any conversion: no file
\* is attempted and the disk is as before.
C10_Case == args.output # NoPath /\ pc # "collect" /\ Len(files) > 1

C10_OutputWithSeveralFiles ==
  C10_Case =>
    /\ attempted = <<>>
    /\ cpc = "idle"
    /\ fs = InitialFS
    /\ pc \in {"check", "exited"}
    /\ pc = "exited" =>
         /\ exit_code = 1
         /\ stdout[Len(stdout)] = Line("usage_error", 0, 0, 0)

\* -o with one directory argument that holds two .gif files
C10_Witness ==
  /\ C10_Case
  /\ pc = "exited"
  /\ Len(args.input) = 1
  /\ stdout[Len(stdout)].msg = "usage_error"

\* ------------------------------------------------------------------ decoder
\* The bytes of the container the decoder was started on
InputBytes == IF infile \in DOMAIN fs THEN fs[infile].data ELSE <<>>

\* The header fields of a container, read directly from its bytes
HdrCount(buf)  == buf[1]
HdrWidth(buf)  == LE16(buf, 1)
HdrHeight(buf) == LE16(buf, 3)
HdrFrameSize(buf) == (HdrWidth(buf) \div 8) * HdrHeight(buf)
FramesStart(buf) == 5 + 2 * HdrCount(buf)

\* Header and delay table are whole, and some frame's slice is short
ShortFrame(buf) ==
  /\ Len(buf) >= 5
  /\ Len(buf) >= FramesStart(buf)
  /\ Len(buf) < FramesStart(buf) + HdrCount(buf) * HdrFrameSize(buf)

\* In frame order, the index of the first short frame and the length of its slice
FirstShortIndex(buf) == (Len(buf) - FramesStart(buf)) \div HdrFrameSize(buf)
FirstShortLength(buf) == (Len(buf) - FramesStart(buf)) % HdrFrameSize(buf)

\* ------------------------------------------------------------------ C7
\* C7: on a container with a short frame slice the decoder never accepts or
\* pads a frame, never reaches the emitter, and stops at the first short
\* frame in frame order with exit status 1 and a report of that frame's
\* index and of the slice's length against frame_size, whose difference is
\* the number of bytes the slice is short.
C7_Case == dpc \notin {"idle", "read", "header", "delays", "frames"} /\ ShortFrame(InputBytes)

C7_TruncatedFrameReported ==
  (dpc # "idle" /\ ShortFrame(InputBytes)) =>
    /\ dpc \notin {"emit", "done", "raised"}
    /\ \A f \in 1..Len(d_frames) : Len(d_frames[f]) = HdrFrameSize(InputBytes)
    /\ C7_Case =>
         /\ dpc = "exited"
         /\ d_exit = 1
         /\ Len(d_frames) = FirstShortIndex(InputBytes)
         /\ LET report == d_stdout[Len(d_stdout)]
            IN  /\ report.msg = "truncated"
                /\ report.a = FirstShortIndex(InputBytes)
                /\ report.c - report.b
                     = HdrFrameSize(InputBytes) - FirstShortLength(InputBytes)
                /\ report.c = HdrFrameSize(InputBytes)

\* The last of two 128x64 frames is 10 bytes short: frame 1, shortfall 10
C7_Witness ==
  /\ C7_Case
  /\ dpc = "exited"
  /\ d_frame_count = 2
  /\ frame_size = 1024
  /\ d_stdout[Len(d_stdout)].a = 1
  /\ d_stdout[Len(d_stdout)].c - d_stdout[Len(d_stdout)].b = 10

\* ------------------------------------------------------------------ C8
\* C8: while the decoder runs on a malformed container (fewer than 5 header
\* bytes, fewer than 2*frame_count delay bytes after them, or a frame slice
\* shorter than frame_size), no step creates or changes the output file and
\* no step reaches the emitter.
Malformed(buf) ==
  \/ Len(buf) < 5
  \/ Len(buf) - 5 < 2 * HdrCount(buf)
  \/ Len(buf) < FramesStart(buf) + HdrCount(buf) * HdrFrameSize(buf)

C8_MalformedLeavesOutput ==
  [][Malformed(InputBytes) => (outfile' = outfile /\ dpc' \notin {"emit", "done"})]_vars

\* The decoder has failed on a cut delay table with the earlier header in place
C8_Witness ==
  /\ dpc = "raised"
  /\ Len(InputBytes) >= 5
  /\ Len(InputBytes) - 5 < 2 * HdrCount(InputBytes)
  /\ outfile = OldHeader

\* ------------------------------------------------------------------ C9
\* C9 (as claimed): for every decoded container, here one of at least one
\* frame of at least one byte, the emitted frames array is declared
\* frame_count x frame_size, the record's frames field has the same row size,
\* every frame's initializer lists its frame_size bytes in container order,
\* and the delay array has frame_count entries.
C9_TableHasContainerGeometry ==
  (dpc = "done" /\ HdrCount(InputBytes) >= 1 /\ HdrFrameSize(InputBytes) >= 1) =>
    LET table == outfile.table[1]
        fsz   == HdrFrameSize(InputBytes)
    IN  /\ table.frames_dim = <<HdrCount(InputBytes), fsz>>
        /\ table.typedef_row = fsz
        /\ Len(table.frames_init) = HdrCount(InputBytes)
        /\ \A f \in 1..Len(table.frames_init) :
             Flatten(table.frames_init[f])
               = [k \in 1..fsz |-> InputBytes[FramesStart(InputBytes) + (f - 1) * fsz + k]]
        /\ table.delays_dim = HdrCount(InputBytes)
        /\ Len(table.delays_init) = HdrCount(InputBytes)

(***************************************************************************)
(* Device simulator: websockets and termination of the device threads      *)
(***************************************************************************)
Started(t) == t_pc[t] # "unstarted"

HasReturned(t) == t_pc[t] = "returned"

\* the thread runs no more: it returned, or shutdown's sys.exit(0) ended
\* the process under it
ThreadEnded(t) == Started(t) /\ (HasReturned(t) \/ s_pc = "exited")

ClosedInTurn(t) ==
  /\ unclosed[t] = (IF ws[t] \in {"open", "lost"} THEN 1 ELSE 0)
  /\ t_pc[t] \in {"loop", "create", "connect", "returned"} => unclosed[t] = 0

AllReturned == \A t \in Devices : Started(t) => HasReturned(t)

\* how far a thread is from its return once the stop event is set: the
\* longest way leads through connect, register, recv, the claim confirmation,
\* the inner loop's test, the finally clause and the outer loop's test
StepsLeft(where) ==
  CASE where = "create"   -> 9
    [] where = "connect"  -> 8
    [] where = "register" -> 7
    [] where = "recv"     -> 6
    [] where = "confirm"  -> 5
    [] where = "inner"    -> 4
    [] where = "except"   -> 3
    [] where = "finally"  -> 2
    [] where = "loop"     -> 1
    [] OTHER              -> 0

\* a running thread that has not returned can take a step
NeverBlocked(t) == (Alive /\ Started(t) /\ ~HasReturned(t)) => ENABLED ThreadStep(t)

\* with the stop event set, every step of a thread brings it nearer its return
NearerReturn(t) == (stop_event /\ t_pc'[t] # t_pc[t]) => StepsLeft(t_pc'[t]) < StepsLeft(t_pc[t])

C11_Safe == \A t \in Devices : ClosedInTurn(t) /\ NeverBlocked(t)

\* the stop event leads to every started thread having returned, or to the
\* end of the process
ReturnsAfterStop == stop_event ~> (AllReturned \/ ~Alive)

====
